---- MODULE Spec2Model ----
(***************************************************************************)
(* A model of the conversational agent of src/ai_agent.py: the message     *)
(* log and its token estimate, the tool registry, and the send_message     *)
(* loop with its concurrent tool invocations (asyncio.gather).             *)
(*                                                                         *)
(* Scheduling.  The agent runs on one asyncio event loop.  A handler runs  *)
(* without interruption up to its next await, so every action below is the *)
(* code between two suspension points.  asyncio.gather creates one task    *)
(* per scheduled tool call; the loop runs the first step of every task in  *)
(* creation order (call_soon is first-in first-out) before it can deliver  *)
(* any I/O result, so a built-in tool, whose call never suspends, runs to  *)
(* its end in that first step, and a remote tool suspends in it and        *)
(* completes later, in any order.                                          *)
(***************************************************************************)
EXTENDS Integers, Sequences, FiniteSets, TLC

(***************************************************************************)
(* Bounds of the model.                                                    *)
(***************************************************************************)
\* the largest iteration budget (max_tool_call_iterations) a run is built with
MaxBudget == 2
\* the number of tool calls the endpoint requests over a run
MaxCalls == 2
\* the number of send_message calls the caller makes
MaxTurns == 2
\* the number of completion requests of a run: the caller starts a turn only if
\* the turn's whole budget fits
MaxRequests == 2
\* the number of add_mcp_stdio_server and add_mcp_http_server calls
MaxServers == 2
\* the number of clients of an agent that converses: the caller starts a turn
\* only if it has added at most this many servers
MaxTalkingServers == 1

(***************************************************************************)
(* Settings (AgentSettings).  The ceiling is the one of the trimming       *)
(* scenario: 10 tokens.                                                    *)
(***************************************************************************)
max_context_tokens == 10

VARIABLES
    context,                  \* Agent._context: the message log
    total_context_tokens,     \* Agent._total_context_tokens
    tools,                    \* Agent._tools: name -> tool
    mcp_clients,              \* Agent._mcp_clients: the number of clients created; they
                              \* are numbered 1..mcp_clients
    open_clients,             \* Agent._open_clients: the clients entered at discovery
    sessions,                 \* per client, the entries of its context manager
                              \* (__aenter__, async with) that have not yet exited
    discovery,                \* the client and keep_alive of the add_mcp_*_server call
                              \* that is loading its tools
    max_tool_call_iterations, \* Agent._max_tool_call_iterations
    pc,                       \* where the caller and send_message stand; "stopped": an
                              \* exception has reached the caller, which ends (as main does)
    iteration,                \* send_message's local iteration
    assistant_message,        \* send_message's local assistant_message
    tool_tasks,               \* send_message's local tool_tasks, with each task's state
    in_flight,                \* completion requests issued and not yet answered
    turns,                    \* send_message calls made so far
    requests_made,            \* completion requests issued so far
    calls_made,               \* tool calls requested so far
    requests,                 \* completion requests issued in the current turn
    all_tool_calls,           \* every response of the current turn requested a tool call
    outcome,                  \* how the last send_message call ended
    tool_log,                 \* the tool messages appended in the current round, in order
    call_count,               \* per tool name, the tool bodies entered in the current round
    last_trim                 \* the last trim_context call: the log and estimate around it

vars == <<context, total_context_tokens, tools, mcp_clients, open_clients, sessions, discovery,
          max_tool_call_iterations,
          pc, iteration, assistant_message, tool_tasks, in_flight, turns, requests_made,
          calls_made, requests, all_tool_calls, outcome, tool_log, call_count, last_trim>>

(***************************************************************************)
(* Values.                                                                 *)
(***************************************************************************)
\* Python's None, where a string is expected
None == "<None>"

\* message contents of 32 characters: 8 tokens by trim_context's estimate
UserText == "My favorite color is blue. Okay?"
AssistantText == "Your favorite color is blue, ok."

UserTexts == {UserText}
\* the system message the caller sets: one before the conversation starts and
\* another once a turn has been made (as main does)
SystemText(turn) == IF turn = 0 THEN "You are a smart assistant." ELSE "Be brief."
\* the content of a completion response: absent, or a text
ResponseContents == {None, AssistantText}
\* usage.total_tokens of a completion response: under and over the ceiling
Usages == {5, 24}

\* the arguments string of a tool call
ArgsEmpty == "{}"
ArgsAB == "{\"a\": 15, \"b\": 27}"
ArgsBad == "{bad"

\* json.loads on the arguments strings above: the keyword names of the parsed
\* object, or the JSONDecodeError
JsonLoads(arguments) ==
    CASE arguments = ArgsEmpty -> [ok |-> TRUE, kwargs |-> {}, error |-> ""]
      [] arguments = ArgsAB -> [ok |-> TRUE, kwargs |-> {"a", "b"}, error |-> ""]
      [] OTHER -> [ok |-> FALSE, kwargs |-> {},
                   error |-> "Expecting property name enclosed in double quotes: line 1 column 2 (char 1)"]

\* the three built-in tool classes registered by Agent.__init__
BuiltinNames == {"get_datetime", "get_total_context_tokens", "clear_context"}
\* the tools the server of src/mcp_server.py advertises
ServerToolNames == {"add", "multiply", "get_weather"}
ToolNames == BuiltinNames \cup ServerToolNames

\* the tools another server advertises: one named like a tool of the first
\* server, one named like a built-in
OtherServerToolNames == {"add", "get_datetime"}
\* what client.list_tools() may answer
Listings == {ServerToolNames, OtherServerToolNames}

BuiltinTool == [kind |-> "builtin", is_persistent |-> FALSE, client |-> 0]
\* MCPTool.__init__
MCPTool(client, keep_alive) == [kind |-> "mcp", is_persistent |-> keep_alive, client |-> client]

NoDiscovery == [client |-> 0, keep_alive |-> FALSE]

\* client.__aenter__() and client.__aexit__(): one more, one fewer entry of the
\* client's context manager
ClientEnter(s, c) == [s EXCEPT ![c] = @ + 1]
ClientExit(s, c) == [s EXCEPT ![c] = @ - 1]

\* what a completion response may request: a name, an arguments string and, for a
\* call that reaches a tool server, what the server does with it
ToolCallMenu ==
    { [name |-> "get_total_context_tokens", arguments |-> ArgsEmpty, fate |-> "ok"],
      [name |-> "clear_context", arguments |-> ArgsEmpty, fate |-> "ok"],
      [name |-> "get_datetime", arguments |-> ArgsAB, fate |-> "ok"],
      [name |-> "add", arguments |-> ArgsAB, fate |-> "ok"],
      [name |-> "add", arguments |-> ArgsAB, fate |-> "fail"],
      [name |-> "add", arguments |-> ArgsBad, fate |-> "ok"],
      [name |-> "multiply_and_round", arguments |-> ArgsEmpty, fate |-> "ok"] }

ToolCallPicks == UNION { [1..n -> ToolCallMenu] : n \in 0..MaxCalls }

\* the id the endpoint gives the i-th tool call of a response: unique per run
CallId(turn, round, i) == turn * 100 + round * 10 + i

\* a message of the log (a dict, with the keys a role does not have left empty)
Message(role, content, tool_call_id, name, tool_calls) ==
    [role |-> role, content |-> content, tool_call_id |-> tool_call_id,
     name |-> name, tool_calls |-> tool_calls]

ToolMessage(tool_call_id, name, content) == Message("tool", content, tool_call_id, name, <<>>)

NoMessage == [present |-> FALSE, content |-> None, tool_calls |-> <<>>]
NoTrim == [ran |-> FALSE, before |-> <<>>, after |-> <<>>, tokens_before |-> 0, tokens_after |-> 0]
NoOutcome == [kind |-> "none", value |-> ""]
NoCalls == [n \in ToolNames |-> 0]

\* Python's `x or ""` on a content
OrEmpty(content) == IF content = None \/ content = "" THEN "" ELSE content

\* list.pop(i) on a 1-based sequence: the sequence without its i-th element
RemoveAt(s, i) == SubSeq(s, 1, i - 1) \o SubSeq(s, i + 1, Len(s))

\* trim_context evicting from position 0 (pop(0)), with no test for the system
\* message
RECURSIVE TrimContextFromFront(_, _)
TrimContextFromFront(ctx, tokens) ==
    IF tokens > max_context_tokens /\ Len(ctx) > 1
    THEN TrimContextFromFront(RemoveAt(ctx, 1), tokens - (Len(ctx[1].content) \div 4))
    ELSE [context |-> ctx, tokens |-> tokens]

\* trim_context with `if` for `while`: at most one eviction
TrimContextOnce(ctx, tokens) ==
    IF tokens > max_context_tokens /\ Len(ctx) > 1 /\ ctx[2].role # "system"
    THEN [context |-> RemoveAt(ctx, 2), tokens |-> tokens - (Len(ctx[2].content) \div 4)]
    ELSE [context |-> ctx, tokens |-> tokens]

(***************************************************************************)
(* Agent.trim_context, the whole loop: the log and the estimate it leaves. *)
(* Position 1 of the Python list is element 2 of the sequence.             *)
(***************************************************************************)
RECURSIVE TrimContext(_, _)
TrimContext(ctx, tokens) ==
    IF tokens > max_context_tokens /\ Len(ctx) > 1
    THEN IF ctx[2].role = "system"
         THEN [context |-> ctx, tokens |-> tokens]
         ELSE TrimContext(RemoveAt(ctx, 2), tokens - (Len(ctx[2].content) \div 4))
    ELSE [context |-> ctx, tokens |-> tokens]

TrimRecord(ctx, tokens) ==
    [ran |-> TRUE, before |-> ctx, after |-> TrimContext(ctx, tokens).context,
     tokens_before |-> tokens, tokens_after |-> TrimContext(ctx, tokens).tokens]

Init ==
    /\ context = <<>>
    /\ total_context_tokens = 0
    /\ tools = [n \in BuiltinNames |-> BuiltinTool]
    /\ mcp_clients = 0
    /\ open_clients = <<>>
    /\ sessions = [c \in 1..MaxServers |-> 0]
    /\ discovery = NoDiscovery
    /\ max_tool_call_iterations \in 0..MaxBudget
    /\ pc = "idle"
    /\ iteration = 0
    /\ assistant_message = NoMessage
    /\ tool_tasks = <<>>
    /\ in_flight = 0
    /\ turns = 0
    /\ requests_made = 0
    /\ calls_made = 0
    /\ requests = 0
    /\ all_tool_calls = TRUE
    /\ outcome = NoOutcome
    /\ tool_log = <<>>
    /\ call_count = NoCalls
    /\ last_trim = NoTrim

(***************************************************************************)
(* The caller's operations between turns.                                  *)
(***************************************************************************)
\* send_message has returned: its locals are gone, and what is recorded of its
\* last turn and round is dropped when the caller makes its next call
Forget ==
    /\ iteration' = 0
    /\ assistant_message' = NoMessage
    /\ tool_tasks' = <<>>
    /\ requests' = 0
    /\ all_tool_calls' = TRUE
    /\ outcome' = NoOutcome
    /\ tool_log' = <<>>
    /\ call_count' = NoCalls

\* Agent.reset_context, called by the caller
ResetContext ==
    /\ pc = "idle"
    /\ context' = <<>>
    /\ total_context_tokens' = 0
    /\ last_trim' = NoTrim
    /\ Forget
    /\ UNCHANGED <<tools, mcp_clients, open_clients, sessions, discovery, max_tool_call_iterations, pc,
                   in_flight, turns, requests_made, calls_made>>

\* set_system_message without its test for a system message at position 0
WithSystemMessageAlwaysInserted(ctx, message) ==
    <<Message("system", message, 0, "", <<>>)>> \o ctx

\* the log set_system_message leaves
WithSystemMessage(ctx, message) ==
    IF ctx # <<>> /\ ctx[1].role = "system"
    THEN [ctx EXCEPT ![1].content = message]
    ELSE <<Message("system", message, 0, "", <<>>)>> \o ctx

\* set_system_message adding the message's estimated size to the estimate
SetSystemMessageCounted(message) ==
    /\ pc = "idle"
    /\ context' = WithSystemMessage(context, message)
    /\ total_context_tokens' = total_context_tokens + (Len(message) \div 4)
    /\ last_trim' = NoTrim
    /\ Forget
    /\ UNCHANGED <<tools, mcp_clients, open_clients, sessions, discovery,
                   max_tool_call_iterations, pc, in_flight, turns, requests_made,
                   calls_made>>

\* Agent.set_system_message
SetSystemMessage(message) ==
    /\ pc = "idle"
    /\ context' = WithSystemMessage(context, message)
    /\ last_trim' = NoTrim
    /\ Forget
    /\ UNCHANGED <<total_context_tokens, tools, mcp_clients, open_clients, sessions, discovery,
                   max_tool_call_iterations, pc, in_flight, turns, requests_made,
                   calls_made>>

\* Agent.trim_context, called by the caller
TrimContextCall ==
    /\ pc = "idle"
    /\ context' = TrimContext(context, total_context_tokens).context
    /\ total_context_tokens' = TrimContext(context, total_context_tokens).tokens
    /\ last_trim' = TrimRecord(context, total_context_tokens)
    /\ Forget
    /\ UNCHANGED <<tools, mcp_clients, open_clients, sessions, discovery, max_tool_call_iterations, pc,
                   in_flight, turns, requests_made, calls_made>>

\* the registration loop of _load_tools keeping a name that is already
\* registered (setdefault for the assignment)
RegisteredFirstWins(registry, client, keep_alive, advertised) ==
    [n \in DOMAIN registry \cup advertised |->
        IF n \in DOMAIN registry THEN registry[n] ELSE MCPTool(client, keep_alive)]

\* the registry after the loop of _load_tools has registered the tools the
\* server advertises: self._tools[mcp_tool.name] = mcp_tool
Registered(registry, client, keep_alive, advertised) ==
    [n \in DOMAIN registry \cup advertised |->
        IF n \in advertised THEN MCPTool(client, keep_alive) ELSE registry[n]]

\* _load_tools registering a default tool of the server before it lists
LoadedEager(registry, client, keep_alive, listed, advertised) ==
    IF listed
    THEN Registered(registry, client, keep_alive, advertised)
    ELSE Registered(registry, client, keep_alive, {"add"})

\* the registry _load_tools leaves: list_tools answers and the tools are
\* registered, or it raises before the loop
Loaded(registry, client, keep_alive, listed, advertised) ==
    IF listed
    THEN Registered(registry, client, keep_alive, advertised)
    ELSE registry

\* add_mcp_stdio_server / add_mcp_http_server up to the await of list_tools,
\* before the conversation starts (as main does): the client is created and
\* appended, and entered (by __aenter__ with keep_alive, by the async with of
\* _load_tools without); connected is whether entering succeeds or raises
AddMcpServer(keep_alive, connected) ==
    /\ pc = "idle"
    /\ turns = 0
    /\ mcp_clients < MaxServers
    /\ mcp_clients' = mcp_clients + 1
    /\ IF connected
       THEN /\ pc' = "loading_tools"
            /\ sessions' = ClientEnter(sessions, mcp_clients + 1)
            /\ open_clients' = IF keep_alive
                               THEN Append(open_clients, mcp_clients + 1)
                               ELSE open_clients
            /\ discovery' = [client |-> mcp_clients + 1, keep_alive |-> keep_alive]
       ELSE /\ pc' = "stopped"
            /\ UNCHANGED <<sessions, open_clients, discovery>>
    /\ UNCHANGED <<context, total_context_tokens, tools, max_tool_call_iterations,
                   iteration, assistant_message, tool_tasks, in_flight, turns,
                   requests_made, calls_made, requests, all_tool_calls, outcome, tool_log,
                   call_count, last_trim>>

\* Agent.add_mcp_stdio_server
AddMcpStdioServer(keep_alive, connected) == AddMcpServer(keep_alive, connected)

\* Agent.add_mcp_http_server: the same code on another transport
AddMcpHttpServer(keep_alive, connected) == AddMcpServer(keep_alive, connected)

\* the sessions after the listing of _load_tools: without keep_alive the async
\* with is left, whether list_tools answered or raised
SessionsAfterListing(s, d) ==
    IF d.keep_alive THEN s ELSE ClientExit(s, d.client)

\* _load_tools from list_tools' answer (or exception) on: the tools are
\* registered and the call returns, or the exception reaches the caller
LoadTools(listed, advertised) ==
    /\ pc = "loading_tools"
    /\ pc' = IF listed THEN "idle" ELSE "stopped"
    /\ sessions' = SessionsAfterListing(sessions, discovery)
    /\ tools' = Loaded(tools, discovery.client, discovery.keep_alive, listed, advertised)
    /\ discovery' = NoDiscovery
    /\ UNCHANGED <<context, total_context_tokens, mcp_clients, open_clients,
                   max_tool_call_iterations, iteration, assistant_message, tool_tasks,
                   in_flight, turns, requests_made, calls_made, requests, all_tool_calls,
                   outcome, tool_log, call_count, last_trim>>

\* the sessions after __aexit__ has been awaited on every client of the list
RECURSIVE ExitAll(_, _)
ExitAll(s, clients) ==
    IF clients = <<>> THEN s ELSE ExitAll(ClientExit(s, Head(clients)), Tail(clients))

\* Agent.close, also run by __aexit__ when the caller leaves `async with Agent`
\* (main does, at its end and when an exception unwinds): the caller makes no
\* call after it
Close ==
    /\ pc \in {"idle", "stopped"}
    /\ pc' = "closed"
    /\ sessions' = ExitAll(sessions, open_clients)
    /\ open_clients' = <<>>
    /\ UNCHANGED <<context, total_context_tokens, tools, mcp_clients, discovery,
                   max_tool_call_iterations, iteration, assistant_message, tool_tasks,
                   in_flight, turns, requests_made, calls_made, requests, all_tool_calls,
                   outcome, tool_log, call_count, last_trim>>

(***************************************************************************)
(* send_message.                                                           *)
(***************************************************************************)
\* the return statement without its `or ""` and its test for None
ReturnValueRaw(am) == am.content

\* the value send_message returns after its loop
ReturnValue(am) == IF am.present THEN OrEmpty(am.content) ELSE ""

\* LoopHead with the while test off by one (iteration <= budget)
LoopHeadOffByOne(it, am, reqs, flying) ==
    /\ iteration' = it
    /\ IF it <= max_tool_call_iterations
       THEN /\ pc' = "awaiting_completion"
            /\ in_flight' = flying + 1
            /\ requests' = reqs + 1
            /\ requests_made' = requests_made + 1
            /\ outcome' = NoOutcome
       ELSE /\ pc' = "idle"
            /\ in_flight' = flying
            /\ requests' = reqs
            /\ requests_made' = requests_made
            /\ outcome' = [kind |-> "returned", value |-> ReturnValue(am)]

\* the while test of send_message with iteration = it: the next completion
\* request is issued, or send_message returns
LoopHead(it, am, reqs, flying) ==
    /\ iteration' = it
    /\ IF it < max_tool_call_iterations
       THEN /\ pc' = "awaiting_completion"
            /\ in_flight' = flying + 1
            /\ requests' = reqs + 1
            /\ requests_made' = requests_made + 1
            /\ outcome' = NoOutcome
       ELSE /\ pc' = "idle"
            /\ in_flight' = flying
            /\ requests' = reqs
            /\ requests_made' = requests_made
            /\ outcome' = [kind |-> "returned", value |-> ReturnValue(am)]

\* send_message up to its first await
SendMessage(message) ==
    /\ pc = "idle"
    /\ turns < MaxTurns
    /\ requests_made + max_tool_call_iterations <= MaxRequests
    /\ mcp_clients <= MaxTalkingServers
    /\ turns' = turns + 1
    /\ calls_made' = calls_made
    /\ context' = Append(context, Message("user", message, 0, "", <<>>))
    /\ assistant_message' = NoMessage
    /\ tool_tasks' = <<>>
    /\ all_tool_calls' = TRUE
    /\ tool_log' = <<>>
    /\ call_count' = NoCalls
    /\ last_trim' = NoTrim
    /\ LoopHead(0, NoMessage, 0, in_flight)
    /\ UNCHANGED <<total_context_tokens, tools, mcp_clients, open_clients, sessions, discovery,
                   max_tool_call_iterations>>

\* the loop looking the name up before it parses the arguments, and scheduling
\* a registered tool whatever the parse gives
DispositionLookupFirst(call, registry) ==
    IF call.name \in DOMAIN registry THEN "schedule"
    ELSE IF ~JsonLoads(call.arguments).ok THEN "parse_error"
    ELSE "unknown"

\* which way the loop over the requested tool calls takes a call
Disposition(call, registry) ==
    IF ~JsonLoads(call.arguments).ok THEN "parse_error"
    ELSE IF call.name \in DOMAIN registry THEN "schedule"
    ELSE "unknown"

\* the tool message the loop appends itself for a call it does not schedule
DirectMessage(call, registry) ==
    IF Disposition(call, registry) = "parse_error"
    THEN ToolMessage(call.id, call.name,
                     "Error parsing arguments: " \o JsonLoads(call.arguments).error)
    ELSE ToolMessage(call.id, call.name, "Unknown tool: " \o call.name)

\* the task _call_tool_safe(tool, function_args, tool_call.id, function_name)
Task(call, registry, fate) ==
    [id |-> call.id, name |-> call.name, kwargs |-> JsonLoads(call.arguments).kwargs,
     tool |-> registry[call.name], fate |-> fate, status |-> "pending"]

\* Dispatch with the else branch of the registry test lost: an unknown tool gets
\* no tool message
RECURSIVE DispatchDropsUnknown(_, _, _, _)
DispatchDropsUnknown(calls, fates, registry, i) ==
    IF i > Len(calls) THEN [messages |-> <<>>, tasks |-> <<>>]
    ELSE LET rest == DispatchDropsUnknown(calls, fates, registry, i + 1)
         IN IF Disposition(calls[i], registry) = "schedule"
            THEN [messages |-> rest.messages,
                  tasks |-> <<Task(calls[i], registry, fates[i])>> \o rest.tasks]
            ELSE IF Disposition(calls[i], registry) = "parse_error"
            THEN [messages |-> <<DirectMessage(calls[i], registry)>> \o rest.messages,
                  tasks |-> rest.tasks]
            ELSE rest

\* the loop over assistant_message.tool_calls, from call i on: the tool messages
\* it appends and the tasks it collects
RECURSIVE Dispatch(_, _, _, _)
Dispatch(calls, fates, registry, i) ==
    IF i > Len(calls) THEN [messages |-> <<>>, tasks |-> <<>>]
    ELSE LET rest == Dispatch(calls, fates, registry, i + 1)
         IN IF Disposition(calls[i], registry) = "schedule"
            THEN [messages |-> rest.messages,
                  tasks |-> <<Task(calls[i], registry, fates[i])>> \o rest.tasks]
            ELSE [messages |-> <<DirectMessage(calls[i], registry)>> \o rest.messages,
                  tasks |-> rest.tasks]

\* a completion response arrives: send_message from the await of
\* _create_chat_completion to its next await or to its return
CompletionResponse(content, usage, picks) ==
    /\ pc = "awaiting_completion"
    /\ calls_made + Len(picks) <= MaxCalls
    /\ calls_made' = calls_made + Len(picks)
    /\ LET calls == [i \in 1..Len(picks) |->
                        [id |-> CallId(turns, iteration, i), name |-> picks[i].name,
                         arguments |-> picks[i].arguments]]
           fates == [i \in 1..Len(picks) |-> picks[i].fate]
           trimmed == TrimContext(context, usage)
           am == [present |-> TRUE, content |-> content, tool_calls |-> calls]
           assistant_dict == Message("assistant", OrEmpty(content), 0, "", calls)
           d == Dispatch(calls, fates, tools, 1)
       IN /\ total_context_tokens' = trimmed.tokens
          /\ last_trim' = TrimRecord(context, usage)
          /\ assistant_message' = am
          /\ all_tool_calls' = (all_tool_calls /\ calls # <<>>)
          /\ context' = Append(trimmed.context, assistant_dict) \o d.messages
          /\ tool_log' = d.messages
          /\ call_count' = NoCalls
          /\ tool_tasks' = d.tasks
          /\ IF calls = <<>>
             THEN /\ pc' = "idle"
                  /\ in_flight' = in_flight - 1
                  /\ outcome' = [kind |-> "returned", value |-> ReturnValue(am)]
                  /\ UNCHANGED <<iteration, requests, requests_made>>
             ELSE IF d.tasks = <<>>
             THEN LoopHead(iteration + 1, am, requests, in_flight - 1)
             ELSE /\ pc' = "executing_tools"
                  /\ in_flight' = in_flight - 1
                  /\ UNCHANGED <<iteration, requests, requests_made, outcome>>
    /\ UNCHANGED <<tools, mcp_clients, open_clients, sessions, discovery,
                   max_tool_call_iterations, turns>>

\* the failed request caught and issued again
CompletionFailureRetried ==
    /\ pc = "awaiting_completion"
    /\ requests' = requests + 1
    /\ requests_made' = requests_made + 1
    /\ UNCHANGED <<context, total_context_tokens, tools, mcp_clients, open_clients, sessions, discovery,
                   max_tool_call_iterations, pc, iteration, assistant_message, tool_tasks,
                   in_flight, turns, calls_made, all_tool_calls, outcome, tool_log,
                   call_count, last_trim>>

\* the completion endpoint fails: the exception leaves send_message
CompletionFailure ==
    /\ pc = "awaiting_completion"
    /\ pc' = "stopped"
    /\ in_flight' = in_flight - 1
    /\ outcome' = [kind |-> "raised_endpoint", value |-> ""]
    /\ UNCHANGED <<context, total_context_tokens, tools, mcp_clients, open_clients, sessions, discovery,
                   max_tool_call_iterations, iteration, assistant_message, tool_tasks,
                   turns, requests_made, calls_made, requests, all_tool_calls, tool_log, call_count, last_trim>>

(***************************************************************************)
(* The tools.                                                              *)
(***************************************************************************)
\* the clock's answer (datetime.now().isoformat()), one instant
Now == "2026-01-01T00:00:00"
\* the text the server returns for add(15, 27), and the error of a failed call
ServerResult == "42.0"
ServerError == "Client failed to connect: Connection closed"

ClassName(name) ==
    CASE name = "get_datetime" -> "GetDatetimeTool"
      [] name = "get_total_context_tokens" -> "GetTotalContextTokensTool"
      [] OTHER -> "ClearContextTool"

\* whether tool.call(self, **function_args) enters the tool's body: a built-in
\* takes no keyword argument (the call raises TypeError before the body runs)
EntersBody(task) == task.tool.kind = "mcp" \/ task.kwargs = {}

\* await tool.call(self, **function_args) of a built-in tool: what it returns or
\* raises, and whether it has reset the context
BuiltinCall(task, tokens) ==
    IF task.kwargs # {}
    THEN [raised |-> TRUE, reset |-> FALSE,
          value |-> ClassName(task.name) \o ".call() got an unexpected keyword argument 'a'"]
    ELSE CASE task.name = "get_datetime" ->
                [raised |-> FALSE, reset |-> FALSE, value |-> Now]
           [] task.name = "get_total_context_tokens" ->
                [raised |-> FALSE, reset |-> FALSE, value |-> ToString(tokens)]
           [] OTHER ->
                [raised |-> FALSE, reset |-> TRUE, value |-> "Context cleared."]

\* MCPTool.call once the server has answered, or the transport has failed
MCPCall(task) ==
    IF task.fate = "ok"
    THEN [raised |-> FALSE, reset |-> FALSE, value |-> ServerResult]
    ELSE [raised |-> TRUE, reset |-> FALSE, value |-> ServerError]

ToolCall(task, tokens) ==
    IF task.tool.kind = "builtin" THEN BuiltinCall(task, tokens) ELSE MCPCall(task)

\* _call_tool_safe without its try/except: the exception leaves the task
CallToolUnsafe(task, tokens) ==
    LET r == ToolCall(task, tokens)
    IN [raised |-> r.raised, reset |-> r.reset, content |-> r.value]

\* _call_tool_safe around the call: an exception becomes the content "Error: ..."
\* and nothing is raised
CallToolSafe(task, tokens) ==
    LET r == ToolCall(task, tokens)
    IN [raised |-> FALSE, reset |-> r.reset,
        content |-> IF r.raised THEN "Error: " \o r.value ELSE r.value]

\* MCPTool.call entering the client whatever is_persistent is
SessionsInCallAlwaysEntered(s, tool) ==
    IF tool.kind = "mcp" THEN ClientEnter(s, tool.client) ELSE s

\* the sessions once MCPTool.call awaits call_tool: a tool that is not
\* persistent has entered `async with self.client`
SessionsInCall(s, tool) ==
    IF tool.kind = "mcp" /\ ~tool.is_persistent THEN ClientEnter(s, tool.client) ELSE s

\* MCPTool.call with explicit __aenter__ / __aexit__ calls and no try/finally:
\* a call_tool that raises skips the exit
SessionsAfterCallLeaking(s, task) ==
    IF task.tool.kind = "mcp" /\ ~task.tool.is_persistent /\ task.fate = "ok"
    THEN ClientExit(s, task.tool.client)
    ELSE s

\* the sessions once call_tool has answered or raised: a tool that is not
\* persistent leaves its async with either way
SessionsAfterCall(s, task) ==
    IF task.tool.kind = "mcp" /\ ~task.tool.is_persistent
    THEN ClientExit(s, task.tool.client)
    ELSE s

SetStatus(tasks, i, status) == [tasks EXCEPT ![i].status = status]

\* the task the event loop steps next for the first time: tasks start in the
\* order gather created them
NextToStart(tasks, i) ==
    /\ i \in DOMAIN tasks
    /\ tasks[i].status = "pending"
    /\ \A j \in 1..(i - 1) : tasks[j].status # "pending"

\* a suspended task resuming before the later tasks have started
MayResumeEarly(tasks, i) ==
    /\ i \in DOMAIN tasks
    /\ tasks[i].status = "running"

\* a suspended task resumes only after the loop has stepped every task once
MayResume(tasks, i) ==
    /\ i \in DOMAIN tasks
    /\ tasks[i].status = "running"
    /\ \A j \in DOMAIN tasks : tasks[j].status # "pending"

\* waiting for the first task only (return_when=FIRST_COMPLETED)
GatherReadyFirstCompleted(tasks) == \E j \in DOMAIN tasks : tasks[j].status = "done"

\* asyncio.gather's future is done: every task has finished
GatherReady(tasks) == \A j \in DOMAIN tasks : tasks[j].status = "done"

\* Finish with a reset_context that clears the log and leaves the estimate
FinishPartialClear(i, r) ==
    LET t == tool_tasks[i]
        message == ToolMessage(t.id, t.name, r.content)
        ctx == IF r.reset THEN <<>> ELSE context
    IN /\ tool_tasks' = SetStatus(tool_tasks, i, "done")
       /\ total_context_tokens' = total_context_tokens
       /\ context' = Append(ctx, message)
       /\ tool_log' = Append(tool_log, message)
       /\ UNCHANGED <<pc, outcome>>

\* the end of _call_tool_safe for task i: the tool message is appended, or, were
\* an exception to leave the task, gather raises it into send_message
Finish(i, r) ==
    LET t == tool_tasks[i]
        message == ToolMessage(t.id, t.name, r.content)
        ctx == IF r.reset THEN <<>> ELSE context
    IN /\ tool_tasks' = SetStatus(tool_tasks, i, "done")
       /\ total_context_tokens' = IF r.reset THEN 0 ELSE total_context_tokens
       /\ IF r.raised
          THEN /\ context' = ctx
               /\ tool_log' = tool_log
               /\ pc' = "stopped"
               /\ outcome' = [kind |-> "raised_tool", value |-> r.content]
          ELSE /\ context' = Append(ctx, message)
               /\ tool_log' = Append(tool_log, message)
               /\ UNCHANGED <<pc, outcome>>

\* the first step of task i: a built-in tool runs to the end of _call_tool_safe,
\* a remote tool sends its request and suspends
StartTool(i) ==
    /\ pc = "executing_tools"
    /\ NextToStart(tool_tasks, i)
    /\ call_count' = IF EntersBody(tool_tasks[i])
                     THEN [call_count EXCEPT ![tool_tasks[i].name] = @ + 1]
                     ELSE call_count
    /\ IF tool_tasks[i].tool.kind = "builtin"
       THEN Finish(i, CallToolSafe(tool_tasks[i], total_context_tokens))
       ELSE /\ tool_tasks' = SetStatus(tool_tasks, i, "running")
            /\ UNCHANGED <<context, total_context_tokens, tool_log, pc, outcome>>
    /\ sessions' = SessionsInCall(sessions, tool_tasks[i].tool)
    /\ UNCHANGED <<tools, mcp_clients, open_clients, discovery, max_tool_call_iterations, iteration,
                   assistant_message, in_flight, turns, requests_made, calls_made, requests, all_tool_calls, last_trim>>

\* the server's answer to task i arrives, or its transport fails
CompleteTool(i) ==
    /\ pc = "executing_tools"
    /\ MayResume(tool_tasks, i)
    /\ Finish(i, CallToolSafe(tool_tasks[i], total_context_tokens))
    /\ sessions' = SessionsAfterCall(sessions, tool_tasks[i])
    /\ UNCHANGED <<tools, mcp_clients, open_clients, discovery, max_tool_call_iterations, iteration,
                   assistant_message, in_flight, turns, requests_made, calls_made, requests, all_tool_calls,
                   call_count, last_trim>>

\* await asyncio.gather(*tool_tasks) returns: iteration += 1 and the while test
GatherDone ==
    /\ pc = "executing_tools"
    /\ GatherReady(tool_tasks)
    /\ LoopHead(iteration + 1, assistant_message, requests, in_flight)
    /\ UNCHANGED <<context, total_context_tokens, tools, mcp_clients, open_clients, sessions, discovery,
                   max_tool_call_iterations, assistant_message, tool_tasks, turns, calls_made,
                   all_tool_calls, tool_log, call_count, last_trim>>

Next ==
    \/ ResetContext
    \/ TrimContextCall
    \/ SetSystemMessage(SystemText(turns))
    \/ \E keep_alive \in BOOLEAN, connected \in BOOLEAN :
          AddMcpStdioServer(keep_alive, connected)
    \/ \E keep_alive \in BOOLEAN, connected \in BOOLEAN :
          AddMcpHttpServer(keep_alive, connected)
    \/ \E listed \in BOOLEAN, advertised \in Listings : LoadTools(listed, advertised)
    \/ Close
    \/ \E message \in UserTexts : SendMessage(message)
    \/ \E content \in ResponseContents, usage \in Usages, picks \in ToolCallPicks :
          CompletionResponse(content, usage, picks)
    \/ CompletionFailure
    \/ \E i \in 1..MaxCalls : StartTool(i)
    \/ \E i \in 1..MaxCalls : CompleteTool(i)
    \/ GatherDone

Spec == Init /\ [][Next]_vars

(***************************************************************************)
(* Notions the properties share.                                           *)
(***************************************************************************)
InTurn == pc \in {"awaiting_completion", "executing_tools"}

\* the tool calls the last completion response requested
RoundCalls == assistant_message.tool_calls
RoundIds == {RoundCalls[i].id : i \in DOMAIN RoundCalls}

\* a round of tool calls is over: every task has finished and send_message has
\* gone on (or is about to)
RoundComplete ==
    /\ RoundCalls # <<>>
    /\ outcome.kind # "raised_tool"
    /\ \/ pc \in {"idle", "awaiting_completion", "stopped"}
       \/ pc = "executing_tools" /\ GatherReady(tool_tasks)

\* the entries of the round's tool messages that answer call id
Answers(id) == {k \in DOMAIN tool_log : tool_log[k].tool_call_id = id}

\* a step of a round of tool invocations
RoundStep == (\E i \in 1..MaxCalls : StartTool(i) \/ CompleteTool(i)) \/ GatherDone

(***************************************************************************)
(* C1.  With an iteration budget of N and every completion response         *)
(* requesting a tool call, a send_message call issues exactly N completion *)
(* requests and then returns, raising nothing, whatever the tool calls do: *)
(* during the turn it has issued at most N, it returns having issued N, no *)
(* tool call makes it raise, and a round of tool invocations can always go *)
(* on.                                                                     *)
(***************************************************************************)
ExactlyBudgetRequests ==
    /\ (InTurn /\ all_tool_calls) => requests <= max_tool_call_iterations
    /\ (outcome.kind = "returned" /\ all_tool_calls) => requests = max_tool_call_iterations
    /\ outcome.kind # "raised_tool"
    /\ pc = "executing_tools" => ENABLED RoundStep

\* a turn with budget 2 has returned after two rounds of tool calls, one of
\* which failed
ExactlyBudgetRequestsWitness ==
    /\ pc = "idle"
    /\ outcome.kind = "returned"
    /\ all_tool_calls
    /\ max_tool_call_iterations = 2
    /\ requests = 2
    /\ \E k \in DOMAIN tool_log : tool_log[k].content = "Error: " \o ServerError

(***************************************************************************)
(* C2.  Every tool call a response requests gets exactly one tool message   *)
(* appended, with the call's id and name: never two, one once the round is *)
(* over, and no tool message of the round carries an id that was not       *)
(* requested.  The messages are appended to the log: unless clear_context  *)
(* has run in the round, they are the end of the log.                      *)
(***************************************************************************)
OneToolMessagePerCall ==
    /\ \A i \in DOMAIN RoundCalls :
          /\ Cardinality(Answers(RoundCalls[i].id)) <= 1
          /\ RoundComplete => Cardinality(Answers(RoundCalls[i].id)) = 1
          /\ \A k \in Answers(RoundCalls[i].id) :
                tool_log[k].name = RoundCalls[i].name /\ tool_log[k].role = "tool"
    /\ \A k \in DOMAIN tool_log : tool_log[k].tool_call_id \in RoundIds
    /\ (call_count["clear_context"] = 0 /\ RoundCalls # <<>> /\ Len(tool_log) <= Len(context))
          => SubSeq(context, Len(context) - Len(tool_log) + 1, Len(context)) = tool_log

\* a round is over in which one call had unparseable arguments and the other
\* named an unknown tool
OneToolMessagePerCallWitness ==
    /\ RoundComplete
    /\ Len(RoundCalls) = 2
    /\ Len(tool_log) = 2
    /\ \E i, j \in DOMAIN RoundCalls :
          /\ Disposition(RoundCalls[i], tools) = "parse_error"
          /\ Disposition(RoundCalls[j], tools) = "unknown"

(***************************************************************************)
(* C3.  The order the chat protocol requires: whenever a completion request *)
(* is in flight, and when send_message has returned, every tool message of *)
(* the log comes after an assistant message that requested its call id,    *)
(* and every assistant message with tool calls is followed by one tool     *)
(* message per call id.                                                    *)
(***************************************************************************)
Requests(message, id) ==
    \E c \in DOMAIN message.tool_calls : message.tool_calls[c].id = id

WellOrdered(ctx) ==
    /\ \A i \in DOMAIN ctx :
          ctx[i].role = "tool" =>
             \E j \in 1..(i - 1) :
                ctx[j].role = "assistant" /\ Requests(ctx[j], ctx[i].tool_call_id)
    /\ \A j \in DOMAIN ctx :
          ctx[j].role = "assistant" =>
             \A c \in DOMAIN ctx[j].tool_calls :
                Cardinality({i \in (j + 1)..Len(ctx) :
                                /\ ctx[i].role = "tool"
                                /\ ctx[i].tool_call_id = ctx[j].tool_calls[c].id}) = 1

MessageOrderPreserved ==
    (pc = "awaiting_completion" \/ outcome.kind = "returned") => WellOrdered(context)

(***************************************************************************)
(* C4.  Trimming never evicts the system message: when trim_context runs   *)
(* on a log with a system message at position 0, the log it leaves has the *)
(* same message at position 0, however far the estimate exceeds the        *)
(* ceiling, and as many system messages as before; and no step other than  *)
(* a reset of the context (reset_context, by the caller or by the          *)
(* clear_context tool) takes the system message from position 0: during a  *)
(* turn it stays there unchanged, whatever is appended, reported or        *)
(* trimmed.                                                                *)
(***************************************************************************)
HasSystemMessage(ctx) == ctx # <<>> /\ ctx[1].role = "system"

SystemMessages(ctx) == {i \in DOMAIN ctx : ctx[i].role = "system"}

TrimKeepsSystemMessage ==
    (last_trim.ran /\ HasSystemMessage(last_trim.before)) =>
        /\ HasSystemMessage(last_trim.after)
        /\ last_trim.after[1] = last_trim.before[1]
        /\ Cardinality(SystemMessages(last_trim.after))
              = Cardinality(SystemMessages(last_trim.before))

\* this step resets the context
ContextReset ==
    \/ context' = <<>>
    \/ call_count'["clear_context"] > call_count["clear_context"]

SystemMessageStays ==
    (HasSystemMessage(context) /\ ~ContextReset) =>
        /\ HasSystemMessage(context')
        /\ InTurn => context'[1] = context[1]

SystemMessageNeverEvicted ==
    /\ []TrimKeepsSystemMessage
    /\ [][SystemMessageStays]_vars

\* a trim has evicted every message but the system message, and the estimate is
\* still above the ceiling
TrimKeepsSystemMessageWitness ==
    /\ last_trim.ran
    /\ HasSystemMessage(last_trim.before)
    /\ Len(last_trim.before) >= 3
    /\ Len(last_trim.after) = 1
    /\ last_trim.tokens_after > max_context_tokens

(***************************************************************************)
(* C5.  The log holds at most one system message, and only at position 0;  *)
(* set_system_message replaces the content of the system message at        *)
(* position 0 in place, and otherwise inserts one at position 0, leaving   *)
(* the other messages and their order as they were.                        *)
(***************************************************************************)
SystemOnlyAtFront == \A i \in DOMAIN context : context[i].role = "system" => i = 1

SetSystemMessageEffect(message) ==
    IF HasSystemMessage(context)
    THEN /\ Len(context') = Len(context)
         /\ context'[1].role = "system"
         /\ context'[1].content = message
         /\ \A i \in 2..Len(context) : context'[i] = context[i]
    ELSE /\ Len(context') = Len(context) + 1
         /\ context'[1].role = "system"
         /\ context'[1].content = message
         /\ \A i \in DOMAIN context : context'[i + 1] = context[i]

OneSystemMessageAtFront ==
    /\ []SystemOnlyAtFront
    /\ [][SetSystemMessage(SystemText(turns)) => SetSystemMessageEffect(SystemText(turns))]_vars

\* after a turn, the system message set before it has been replaced in place, in
\* a log that holds other messages
OneSystemMessageAtFrontWitness ==
    /\ pc = "idle"
    /\ turns = 1
    /\ Len(context) >= 3
    /\ HasSystemMessage(context)
    /\ context[1].content = SystemText(1)

(***************************************************************************)
(* C6.  trim_context evicts oldest first: the messages it removes are the  *)
(* oldest non-system messages of the log, it removes none once the         *)
(* estimate is no longer above the ceiling, and it keeps the most recent   *)
(* message whenever it keeps a non-system message at all.  In particular,  *)
(* with ceiling 10, three non-system messages of 8 tokens each and an      *)
(* estimate of 24, it evicts the two oldest and keeps the most recent.     *)
(***************************************************************************)
NonSystem(ctx) == SelectSeq(ctx, LAMBDA m : m.role # "system")

Estimate(message) == Len(message.content) \div 4

OldestFirstEviction ==
    last_trim.ran =>
        LET before == NonSystem(last_trim.before)
            after == NonSystem(last_trim.after)
            k == Len(before) - Len(after)
        IN /\ after = SubSeq(before, k + 1, Len(before))
           /\ k > 0 => last_trim.tokens_after + Estimate(before[k]) > max_context_tokens
           /\ after # <<>> => after[Len(after)] = last_trim.before[Len(last_trim.before)]

(***************************************************************************)
(* C7.  A tool call with unparseable arguments, or naming a tool that is   *)
(* not registered, invokes no tool: no task is created for it, the count   *)
(* of bodies entered for a name never exceeds the valid calls of that      *)
(* name, and the call's one tool message reports the parse error or the    *)
(* unknown tool.                                                           *)
(***************************************************************************)
Parseable(call) == JsonLoads(call.arguments).ok

ValidCalls(name) ==
    {i \in DOMAIN RoundCalls :
        RoundCalls[i].name = name /\ Parseable(RoundCalls[i]) /\ name \in DOMAIN tools}

NoInvocationForBadCall ==
    /\ \A n \in ToolNames : call_count[n] <= Cardinality(ValidCalls(n))
    /\ \A i \in DOMAIN RoundCalls :
          (~Parseable(RoundCalls[i]) \/ RoundCalls[i].name \notin DOMAIN tools) =>
             /\ \A j \in DOMAIN tool_tasks : tool_tasks[j].id # RoundCalls[i].id
             /\ \E k \in DOMAIN tool_log :
                   /\ tool_log[k].tool_call_id = RoundCalls[i].id
                   /\ tool_log[k].content =
                        IF ~Parseable(RoundCalls[i])
                        THEN "Error parsing arguments: " \o JsonLoads(RoundCalls[i].arguments).error
                        ELSE "Unknown tool: " \o RoundCalls[i].name

\* a round is over that requested a registered remote tool with unparseable
\* arguments and an unknown tool: no tool body was entered
NoInvocationForBadCallWitness ==
    /\ RoundComplete
    /\ \E i, j \in DOMAIN RoundCalls :
          /\ ~Parseable(RoundCalls[i])
          /\ RoundCalls[i].name \in DOMAIN tools
          /\ Parseable(RoundCalls[j])
          /\ RoundCalls[j].name \notin DOMAIN tools
    /\ call_count = NoCalls
    /\ Len(tool_log) = 2

(***************************************************************************)
(* C8.  A failing tool invocation aborts neither the round nor the turn:   *)
(* send_message never raises because of a tool, a finished invocation that *)
(* failed has a tool message with content "Error: " and the failure's      *)
(* text, every invocation of a round that is over has finished and has its *)
(* tool message, a round can always go on, and the caller sees an          *)
(* exception only from the completion endpoint or from discovery.          *)
(***************************************************************************)
Failed(task) == ToolCall(task, 0).raised

ToolFailureContained ==
    /\ outcome.kind # "raised_tool"
    /\ \A i \in DOMAIN tool_tasks :
          tool_tasks[i].status = "done" =>
             \E k \in Answers(tool_tasks[i].id) :
                Failed(tool_tasks[i]) =>
                   tool_log[k].content = "Error: " \o ToolCall(tool_tasks[i], 0).value
    /\ RoundComplete => \A i \in DOMAIN tool_tasks : tool_tasks[i].status = "done"
    /\ pc = "executing_tools" => ENABLED RoundStep
    /\ pc = "stopped" => (outcome.kind = "raised_endpoint" \/ turns = 0)

\* a round with a failed remote invocation and a successful one is over, both
\* have their tool message, and the next completion request is in flight
ToolFailureContainedWitness ==
    /\ pc = "awaiting_completion"
    /\ requests = 2
    /\ Len(tool_tasks) = 2
    /\ \E i, j \in DOMAIN tool_tasks :
          /\ Failed(tool_tasks[i])
          /\ ~Failed(tool_tasks[j])
          /\ \E k \in Answers(tool_tasks[i].id) :
                tool_log[k].content = "Error: " \o ServerError
          /\ \E k \in Answers(tool_tasks[j].id) : tool_log[k].content = ServerResult

(***************************************************************************)
(* C9.  The tool messages a round leaves in the log do not depend on the   *)
(* order in which its invocations complete: once the round is over, the    *)
(* set of the round's tool messages in the log is the one set that running *)
(* the round's calls one after the other, in the order requested, leaves.  *)
(***************************************************************************)
\* the tool messages left by running tasks i.. one at a time: a built-in tool
\* at its turn, the remote tools after them
RECURSIVE SerialRound(_, _, _, _)
SerialRound(tasks, i, messages, tokens) ==
    IF i > Len(tasks)
    THEN messages \cup
         {ToolMessage(tasks[j].id, tasks[j].name, CallToolSafe(tasks[j], tokens).content) :
              j \in {j \in DOMAIN tasks : tasks[j].tool.kind = "mcp"}}
    ELSE IF tasks[i].tool.kind = "mcp"
    THEN SerialRound(tasks, i + 1, messages, tokens)
    ELSE LET r == CallToolSafe(tasks[i], tokens)
             message == ToolMessage(tasks[i].id, tasks[i].name, r.content)
         IN SerialRound(tasks, i + 1,
                        (IF r.reset THEN {} ELSE messages) \cup {message},
                        IF r.reset THEN 0 ELSE tokens)

ExpectedToolMessages ==
    LET direct == {DirectMessage(RoundCalls[i], tools) :
                      i \in {i \in DOMAIN RoundCalls :
                                 Disposition(RoundCalls[i], tools) # "schedule"}}
    IN SerialRound(tool_tasks, 1, direct, last_trim.tokens_after)

RoundToolMessages ==
    {context[i] : i \in {i \in DOMAIN context :
                            context[i].role = "tool" /\ context[i].tool_call_id \in RoundIds}}

CompletionOrderIndependent == RoundComplete => RoundToolMessages = ExpectedToolMessages

\* a round of two remote invocations is over, the second having completed first
CompletionOrderIndependentWitness ==
    /\ RoundComplete
    /\ Len(tool_tasks) = 2
    /\ Len(tool_log) = 2
    /\ tool_log[1].tool_call_id = tool_tasks[2].id
    /\ tool_log[2].tool_call_id = tool_tasks[1].id

(***************************************************************************)
(* C10.  The barrier: a completion request is in flight only when every    *)
(* invocation of the round before it has finished and appended its tool    *)
(* message, none is in flight while tools run, and at most one is in       *)
(* flight at any time.                                                     *)
(***************************************************************************)
BarrierBeforeNextRequest ==
    /\ in_flight \in {0, 1}
    /\ in_flight = 1 <=> pc = "awaiting_completion"
    /\ pc = "awaiting_completion" =>
          \A i \in DOMAIN tool_tasks :
             tool_tasks[i].status = "done" /\ Answers(tool_tasks[i].id) # {}

\* the second completion request of a turn is in flight after a round of two
\* remote invocations
BarrierBeforeNextRequestWitness ==
    /\ pc = "awaiting_completion"
    /\ requests = 2
    /\ Len(tool_tasks) = 2
    /\ \A i \in DOMAIN tool_tasks : tool_tasks[i].tool.kind = "mcp"

(***************************************************************************)
(* C11.  How send_message ends.  It returns either because a completion    *)
(* response without tool calls has arrived within the budget (DONE), or    *)
(* because the budget is used up while the responses still request tools   *)
(* (BUDGET_EXHAUSTED), and never both.  After DONE nothing of the turn     *)
(* goes on: no request is in flight, no task is left, and until the next   *)
(* send_message call no request is issued and no tool runs.  The value     *)
(* returned is the content of the last assistant message of the turn, the  *)
(* empty string when the content is absent or empty or when the turn       *)
(* produced no assistant message.                                          *)
(***************************************************************************)
Returned == outcome.kind = "returned"

Done ==
    /\ Returned
    /\ assistant_message.present
    /\ assistant_message.tool_calls = <<>>

BudgetExhausted ==
    /\ Returned
    /\ iteration = max_tool_call_iterations
    /\ requests = max_tool_call_iterations
    /\ assistant_message.present => assistant_message.tool_calls # <<>>

LastAssistantContent ==
    IF ~assistant_message.present \/ assistant_message.content = None
    THEN ""
    ELSE assistant_message.content

EndsDoneOrExhausted ==
    Returned =>
        /\ Done \/ BudgetExhausted
        /\ ~(Done /\ BudgetExhausted)
        /\ Done => /\ iteration < max_tool_call_iterations
                   /\ 1 <= requests /\ requests <= max_tool_call_iterations
                   /\ context[Len(context)].role = "assistant"
                   /\ context[Len(context)].tool_calls = <<>>
                   /\ context[Len(context)].content = outcome.value
        /\ outcome.value = LastAssistantContent
        /\ outcome.value # None
        /\ pc \in {"idle", "closed"} /\ in_flight = 0
        /\ \A i \in DOMAIN tool_tasks : tool_tasks[i].status = "done"

NothingAfterReturn ==
    (Returned /\ turns' = turns) =>
        /\ requests_made' = requests_made
        /\ calls_made' = calls_made
        /\ in_flight' = 0
        /\ pc' \in {"idle", "stopped", "closed"}

SendMessageEnds ==
    /\ []EndsDoneOrExhausted
    /\ [][NothingAfterReturn]_vars

\* a turn has ended DONE on its second response, whose content was absent, after
\* a round of tool calls
SendMessageEndsDoneWitness ==
    /\ Done
    /\ requests = 2
    /\ assistant_message.content = None
    /\ outcome.value = ""
    /\ Len(context) >= 4

(***************************************************************************)
(* C12.  reset_context clears the log and the token estimate together,     *)
(* from any state: a step that resets the context, the caller's or the     *)
(* clear_context tool's, leaves the estimate at zero and the log empty     *)
(* (with the tool, holding only the tool's own message, appended after the *)
(* reset); an empty log always goes with a zero estimate; and an           *)
(* invocation of the same round that runs after clear_context sees both    *)
(* cleared: get_total_context_tokens reports 0 and the log holds only      *)
(* messages of the round appended since.                                   *)
(***************************************************************************)
ClearedMessage(m) == m.role = "tool" /\ m.name = "clear_context" /\ m.content = "Context cleared."

ResetStep ==
    ContextReset =>
        /\ total_context_tokens' = 0
        /\ \/ context' = <<>>
           \/ Len(context') = 1 /\ ClearedMessage(context'[1])

\* positions of tool_log at which clear_context has reported
ClearedAt == {k \in DOMAIN tool_log : ClearedMessage(tool_log[k])}

NoPartialClear ==
    /\ context = <<>> => total_context_tokens = 0
    /\ (pc = "executing_tools" /\ ClearedAt # {}) =>
          LET k == CHOOSE k \in ClearedAt : \A l \in ClearedAt : l <= k
          IN /\ total_context_tokens = 0
             /\ context = SubSeq(tool_log, k, Len(tool_log))
    /\ \A k \in ClearedAt : \A l \in DOMAIN tool_log :
          (l > k /\ tool_log[l].name = "get_total_context_tokens") =>
              tool_log[l].content = "0"

ResetIsAtomic ==
    /\ []NoPartialClear
    /\ [][ResetStep]_vars

\* in one round clear_context has run with a non-zero estimate and a non-empty
\* log, and get_total_context_tokens after it has reported 0
ResetIsAtomicWitness ==
    /\ last_trim.ran
    /\ last_trim.tokens_after > 0
    /\ Len(tool_log) = 2
    /\ ClearedMessage(tool_log[1])
    /\ tool_log[2].name = "get_total_context_tokens"
    /\ tool_log[2].content = "0"
    /\ context = tool_log
    /\ total_context_tokens = 0

(***************************************************************************)
(* C13.  A failure of the completion endpoint is not recovered and not     *)
(* retried: the step in which the request fails raises to the caller,      *)
(* issues no request, and leaves the log and the token estimate as they    *)
(* were, so the user message and the messages of the earlier rounds are    *)
(* still in the log; and once the exception has reached the caller no      *)
(* request is issued, no tool runs and the log and estimate do not change. *)
(***************************************************************************)
EndpointRaised == outcome.kind = "raised_endpoint"

FailureStep ==
    CompletionFailure =>
        /\ outcome'.kind = "raised_endpoint"
        /\ pc' = "stopped"
        /\ in_flight' = 0
        /\ requests_made' = requests_made
        /\ context' = context
        /\ total_context_tokens' = total_context_tokens

AfterFailure ==
    EndpointRaised =>
        /\ requests_made' = requests_made
        /\ calls_made' = calls_made
        /\ call_count' = call_count
        /\ tool_tasks' = tool_tasks
        /\ in_flight' = 0
        /\ context' = context
        /\ total_context_tokens' = total_context_tokens

FailureLeavesLog ==
    EndpointRaised =>
        /\ pc \in {"stopped", "closed"}
        /\ in_flight = 0
        /\ \A i \in DOMAIN tool_tasks : tool_tasks[i].status = "done"
        /\ requests = 1 =>
              /\ context # <<>>
              /\ context[Len(context)].role = "user"
        /\ (requests > 1 /\ call_count["clear_context"] = 0) =>
              /\ Len(context) > Len(tool_log)
              /\ SubSeq(context, Len(context) - Len(tool_log) + 1, Len(context)) = tool_log
              /\ context[Len(context) - Len(tool_log)].role = "assistant"

EndpointFailurePropagates ==
    /\ []FailureLeavesLog
    /\ [][FailureStep]_vars
    /\ [][AfterFailure]_vars

\* the second request of a turn has failed: the log still ends with the assistant
\* message and the two tool messages of the first round
EndpointFailurePropagatesWitness ==
    /\ EndpointRaised
    /\ requests = 2
    /\ Len(tool_log) = 2
    /\ Len(context) >= 4
    /\ total_context_tokens > 0

(***************************************************************************)
(* C14.  The token estimate changes in three ways only: a completion       *)
(* response overwrites it with the reported usage and trim_context then    *)
(* runs on the log as it was before the assistant message is appended;     *)
(* trim_context decrements it by the estimated size of each message it     *)
(* evicts; reset_context sets it to zero.  Appending a user, assistant or  *)
(* tool message and set_system_message leave it as it is, so between two   *)
(* responses it lags behind the log.                                       *)
(***************************************************************************)
\* the estimated sizes of the messages of positions from..to of ctx
RECURSIVE Evicted(_, _, _)
Evicted(ctx, from, to) ==
    IF from > to THEN 0 ELSE Estimate(ctx[from]) + Evicted(ctx, from + 1, to)

\* the step's trim ran on the log of before the step, from the estimate start,
\* and the estimate is what the evictions leave of it
TrimmedFrom(start) ==
    /\ last_trim'.ran
    /\ last_trim'.before = context
    /\ last_trim'.tokens_before = start
    /\ total_context_tokens' = last_trim'.tokens_after
    /\ LET k == Len(last_trim'.before) - Len(last_trim'.after)
       IN total_context_tokens' = start - Evicted(context, 2, k + 1)

TokensChangeOnlyBy ==
    total_context_tokens' # total_context_tokens =>
        \/ pc = "awaiting_completion" /\ \E usage \in Usages : TrimmedFrom(usage)
        \/ pc = "idle" /\ TrimmedFrom(total_context_tokens)
        \/ ContextReset /\ total_context_tokens' = 0

AppendsLeaveTokens ==
    /\ (\E message \in UserTexts : SendMessage(message)) =>
          total_context_tokens' = total_context_tokens
    /\ SetSystemMessage(SystemText(turns)) => total_context_tokens' = total_context_tokens
    /\ (pc = "executing_tools" /\ ~ContextReset) => total_context_tokens' = total_context_tokens
    /\ (pc = "awaiting_completion" /\ pc' # "stopped") =>
          \E usage \in Usages : TrimmedFrom(usage)

TokensFrame ==
    /\ [][TokensChangeOnlyBy]_vars
    /\ [][AppendsLeaveTokens]_vars

\* the estimate is the usage last reported, 5, under a log of a system message
\* and four more messages appended since, 24 tokens by their lengths
TokensFrameWitness ==
    /\ pc = "idle"
    /\ total_context_tokens = 5
    /\ Len(context) >= 5
    /\ HasSystemMessage(context)
    /\ Evicted(context, 2, Len(context)) >= 24

TokensNeverNegative ==
    /\ total_context_tokens >= 0
    /\ last_trim.tokens_after >= 0

(***************************************************************************)
(* Connections.  A client's connection is open while some entry of its      *)
(* context manager has not exited: the client counts its entries, and the  *)
(* last exit tears the connection down.                                    *)
(***************************************************************************)
Clients == 1..mcp_clients

\* the clients a keep_alive discovery has entered and close has not yet left
Held == {open_clients[k] : k \in DOMAIN open_clients}

ConnectionOpen(c) == sessions[c] > 0

\* the invocations running on client c
Running(c) ==
    {i \in DOMAIN tool_tasks :
        tool_tasks[i].status = "running" /\ tool_tasks[i].tool.client = c}

\* the listings and invocations in progress on client c
InProgress(c) ==
    Cardinality(Running(c))
       + (IF pc = "loading_tools" /\ discovery.client = c THEN 1 ELSE 0)

HeldOpenOnce ==
    /\ \A c \in Held : c \in Clients /\ sessions[c] = 1
    /\ \A k, l \in DOMAIN open_clients : open_clients[k] = open_clients[l] => k = l
    /\ \A n \in DOMAIN tools :
          (tools[n].kind = "mcp" /\ tools[n].is_persistent /\ pc # "closed") =>
              tools[n].client \in Held
    /\ pc = "closed" =>
          /\ open_clients = <<>>
          /\ \A c \in 1..MaxServers : ~ConnectionOpen(c)

HeldUntilClose ==
    \A c \in Held :
        \/ c \in {open_clients'[k] : k \in DOMAIN open_clients'} /\ sessions'[c] = sessions[c]
        \/ pc' = "closed" /\ sessions'[c] = 0

KeepAliveLifecycle ==
    /\ []HeldOpenOnce
    /\ [][HeldUntilClose]_vars

\* the agent has been closed after two turns, in the last of which a tool of a
\* server added with keep-alive was invoked
KeepAliveLifecycleWitness ==
    /\ pc = "closed"
    /\ turns = 2
    /\ mcp_clients = 1
    /\ \E i \in DOMAIN tool_tasks :
          /\ tool_tasks[i].tool.kind = "mcp"
          /\ tool_tasks[i].tool.is_persistent
          /\ tool_tasks[i].status = "done"
    /\ sessions[1] = 0

(***************************************************************************)
(* C17.  A failure while discovering a tool server, on opening the         *)
(* connection or on listing the tools, reaches the caller of               *)
(* add_mcp_stdio_server / add_mcp_http_server and leaves the registry as   *)
(* it was before the call: the failing step changes no entry, no tool of   *)
(* the failed server is registered, and the tools registered before, the   *)
(* built-in ones and those of servers discovered earlier, are all there.   *)
(***************************************************************************)
DiscoveryFailed == pc = "stopped" /\ turns = 0 /\ outcome.kind = "none"

FailedDiscoveryStep ==
    (pc \in {"idle", "loading_tools"} /\ pc' = "stopped") =>
        /\ tools' = tools
        /\ discovery' = NoDiscovery
        /\ mcp_clients' >= 1

FailedServerHasNoTool ==
    /\ DiscoveryFailed =>
          /\ mcp_clients >= 1
          /\ \A n \in DOMAIN tools : tools[n].client # mcp_clients
          /\ BuiltinNames \subseteq DOMAIN tools
    /\ pc = "loading_tools" =>
          \A n \in DOMAIN tools : tools[n].client # discovery.client

DiscoveryFailureLeavesRegistry ==
    /\ []FailedServerHasNoTool
    /\ [][FailedDiscoveryStep]_vars

\* the listing of a second server, entered with keep-alive, has failed: the
\* registry holds the tools of the first server, one of them in the place of a
\* built-in, and nothing of the second
DiscoveryFailureLeavesRegistryWitness ==
    /\ DiscoveryFailed
    /\ mcp_clients = 2
    /\ 2 \in Held
    /\ tools["get_datetime"] = MCPTool(1, FALSE)
    /\ tools["add"] = MCPTool(1, FALSE)
    /\ tools["clear_context"] = BuiltinTool

(***************************************************************************)
(* C18.  The registry maps a name to one tool and the last registration    *)
(* wins: a discovery that succeeds registers each advertised name with the *)
(* tool of the new client, in the place of whatever the name had (a        *)
(* built-in included), and leaves every other name with its tool; so a     *)
(* name resolves to the tool of the most recently discovered server that   *)
(* advertises it, and a scheduled call runs the tool its name resolves to. *)
(***************************************************************************)
RegistrationStep ==
    (pc = "loading_tools" /\ pc' = "idle") =>
        \E advertised \in Listings :
            /\ DOMAIN tools' = DOMAIN tools \cup advertised
            /\ \A n \in advertised :
                  tools'[n] = [kind |-> "mcp", is_persistent |-> discovery.keep_alive,
                               client |-> discovery.client]
            /\ \A n \in DOMAIN tools \ advertised : tools'[n] = tools[n]

\* "add" is advertised by every server: the client whose tool it resolves to is
\* the last one discovered
LatestWins ==
    /\ BuiltinNames \subseteq DOMAIN tools
    /\ \A n \in DOMAIN tools :
          /\ tools[n].kind = "builtin" => n \in BuiltinNames /\ tools[n].client = 0
          /\ tools[n].kind = "mcp" =>
                /\ tools[n].client \in Clients
                /\ "add" \in DOMAIN tools
                /\ tools[n].client <= tools["add"].client
                /\ tools[n].client < tools["add"].client => n \in {"multiply", "get_weather", "get_datetime"}
    /\ \A i \in DOMAIN tool_tasks : tool_tasks[i].tool = tools[tool_tasks[i].name]

LastRegistrationWins ==
    /\ []LatestWins
    /\ [][RegistrationStep]_vars

\* two servers have been discovered: add and get_datetime resolve to the tools of
\* the second, multiply still to the tool of the first, clear_context to the
\* built-in
LastRegistrationWinsWitness ==
    /\ pc = "idle"
    /\ mcp_clients = 2
    /\ {"add", "multiply"} \subseteq DOMAIN tools
    /\ tools["add"].client = 2
    /\ tools["get_datetime"].client = 2
    /\ tools["multiply"].client = 1
    /\ tools["clear_context"] = BuiltinTool

====
